---- MODULE Spec2Model ----
(***************************************************************************)
(* State-machine model of tetris_streamlit_v1.py: the session state of the *)
(* game (st.session_state), the four button callbacks, the script body     *)
(* that runs once per rerun (game-over screen, gravity loop) and the       *)
(* restart button.                                                         *)
(*                                                                         *)
(* The board is a Python list of rows, modelled as a sequence of rows;     *)
(* Python index i is TLA+ index i+1.                                       *)
(***************************************************************************)
EXTENDS Integers, Sequences, FiniteSets, TLC

VARIABLES
    field,             \* st.session_state.field
    current_piece,     \* st.session_state.current_piece
    current_rotation,  \* st.session_state.current_rotation (never reduced mod 4)
    current_x,         \* st.session_state.current_x
    current_y,         \* st.session_state.current_y
    score,             \* st.session_state.score
    game_over,         \* st.session_state.game_over
    speed,             \* st.session_state.speed
    speed_counter,     \* st.session_state.speed_counter
    piece_count,       \* st.session_state.piece_count
    screen,            \* widgets on the page: "none", "play" (four buttons), "over" (restart)
    cmds,              \* number of button presses since the game was created
    last,              \* the last operation, and for a button whether its target placement fitted
    arg,               \* input of a pure function under test (<<>> during play)
    res                \* its result (<<>> while not computed)

session == <<field, current_piece, current_rotation, current_x, current_y,
             score, game_over, speed, speed_counter, piece_count>>
vars == <<field, current_piece, current_rotation, current_x, current_y,
          score, game_over, speed, speed_counter, piece_count, screen, cmds, last,
          arg, res>>

(***************************************************************************)
(* Constants of the program                                                *)
(***************************************************************************)
FIELD_WIDTH == 12
FIELD_HEIGHT == 18
BORDER == 9
INITIAL_SPEED == 20
MIN_SPEED == 10
SPEEDUP_EVERY == 10

\* random.randint(0, 6)
Kinds == 0..6

tetromino == <<
    << ".",".","X",".", ".",".","X",".", ".",".","X",".", ".",".","X","." >>,  \* 0: I
    << ".",".","X",".", ".","X","X",".", ".","X",".",".", ".",".",".","." >>,  \* 1: Z
    << ".","X",".",".", ".","X","X",".", ".",".","X",".", ".",".",".","." >>,  \* 2: S
    << ".",".",".",".", ".","X","X",".", ".","X","X",".", ".",".",".","." >>,  \* 3: O
    << ".","X",".",".", ".","X",".",".", ".","X","X",".", ".",".",".","." >>,  \* 4: L
    << ".",".","X",".", ".",".","X",".", ".","X","X",".", ".",".",".","." >>,  \* 5: J
    << ".","X",".",".", ".","X","X",".", ".",".","X",".", ".",".",".","." >>   \* 6: T
>>

\* tetromino[n][pi] == 'X'
IsX(n, pi) == tetromino[n + 1][pi + 1] = "X"

(***************************************************************************)
(* Bounds of the model                                                     *)
(***************************************************************************)
MaxCmds == 2       \* button presses explored per game in free play
MaxPieces == 112   \* locks explored in the planned long game
MaxRotation == 7   \* largest rotation value given to rotate as a function under test
LineRows == 5      \* rows above the bottom border varied in the boards given to check_lines
MargX == 4         \* origins tried from MargX columns left of the board to its right edge
MargY == 4         \* origins tried from MargY rows above the board to its bottom edge
MaxLive == 2       \* the piece of a game that is followed to its lock under unlimited presses
MaxTurns == 1      \* largest rotation value a rotate press may reach under unlimited presses

(***************************************************************************)
(* Core functions                                                          *)
(***************************************************************************)
\* rotate with the 270 degree formula mirrored
rotate_mirror270(px, py, r) ==
    LET rr == r % 4 IN
    CASE rr = 0 -> py * 4 + px
      [] rr = 1 -> 12 + py - (px * 4)
      [] rr = 2 -> 15 - (py * 4) - px
      [] rr = 3 -> 3 - px + (py * 4)

rotate(px, py, r) ==
    LET rr == r % 4 IN
    CASE rr = 0 -> py * 4 + px
      [] rr = 1 -> 12 + py - (px * 4)
      [] rr = 2 -> 15 - (py * 4) - px
      [] rr = 3 -> 3 - py + (px * 4)

\* field[y][x] for indices inside the list
Cell(f, x, y) == f[y + 1][x + 1]

\* One iteration of the nested loops of does_piece_fit: i = px * 4 + py.
RECURSIVE FitFrom(_, _, _, _, _, _)
FitFrom(f, n, r, x, y, i) ==
    IF i = 16 THEN TRUE
    ELSE LET px == i \div 4
             py == i % 4
             pi == rotate(px, py, r)
             fi_x == x + px
             fi_y == y + py
         IN  IF IsX(n, pi)
             THEN IF fi_x < 0 \/ fi_x >= FIELD_WIDTH \/ fi_y < 0 \/ fi_y >= FIELD_HEIGHT
                  THEN FALSE
                  ELSE IF Cell(f, fi_x, fi_y) # 0
                       THEN FALSE
                       ELSE FitFrom(f, n, r, x, y, i + 1)
             ELSE FitFrom(f, n, r, x, y, i + 1)

\* does_piece_fit that skips the cells outside the board instead of failing on them
RECURSIVE FitInsideFrom(_, _, _, _, _, _)
FitInsideFrom(f, n, r, x, y, i) ==
    IF i = 16 THEN TRUE
    ELSE LET px == i \div 4
             py == i % 4
             fi_x == x + px
             fi_y == y + py
             inside == fi_x >= 0 /\ fi_x < FIELD_WIDTH /\ fi_y >= 0 /\ fi_y < FIELD_HEIGHT
         IN  IF IsX(n, rotate(px, py, r)) /\ inside /\ f[fi_y + 1][fi_x + 1] # 0
             THEN FALSE
             ELSE FitInsideFrom(f, n, r, x, y, i + 1)

does_piece_fit_inside(f, n_tetromino, n_rotation, n_pos_x, n_pos_y) ==
    FitInsideFrom(f, n_tetromino, n_rotation, n_pos_x, n_pos_y, 0)

does_piece_fit(f, n_tetromino, n_rotation, n_pos_x, n_pos_y) ==
    FitFrom(f, n_tetromino, n_rotation, n_pos_x, n_pos_y, 0)

\* The board built by initialize_game
EmptyRow == [x \in 1..FIELD_WIDTH |-> IF x = 1 \/ x = FIELD_WIDTH THEN BORDER ELSE 0]
BorderRow == [x \in 1..FIELD_WIDTH |-> BORDER]
InitialField == [y \in 1..FIELD_HEIGHT |-> IF y = FIELD_HEIGHT THEN BorderRow ELSE EmptyRow]

\* A Python list index: a negative index counts from the end
PyIndex(i, n) == IF i < 0 THEN i + n ELSE i

\* One iteration of the nested loops of lock_piece: i = px * 4 + py.
RECURSIVE LockFrom(_, _, _, _, _, _)
LockFrom(f, piece, rot, x_pos, y_pos, i) ==
    IF i = 16 THEN f
    ELSE LET px == i \div 4
             py == i % 4
             pi == rotate(px, py, rot)
             row == PyIndex(y_pos + py, Len(f)) + 1
             col == PyIndex(x_pos + px, FIELD_WIDTH) + 1
         IN  IF IsX(piece, pi)
             THEN LockFrom([f EXCEPT ![row][col] = piece + 1], piece, rot, x_pos, y_pos, i + 1)
             ELSE LockFrom(f, piece, rot, x_pos, y_pos, i + 1)

lock_piece(f, piece, rot, x_pos, y_pos) == LockFrom(f, piece, rot, x_pos, y_pos, 0)

\* is_line of check_lines for row y
IsLine(f, y) == \A x \in 1..(FIELD_WIDTH - 2) : Cell(f, x, y) # 0

\* lines_to_clear: rows FIELD_HEIGHT-2 down to 0, in that order
RECURSIVE LinesFrom(_, _)
LinesFrom(f, y) ==
    IF y < 0 THEN <<>>
    ELSE (IF IsLine(f, y) THEN <<y>> ELSE <<>>) \o LinesFrom(f, y - 1)

\* lines_to_clear collected from the top row down
RECURSIVE LinesUpFrom(_, _)
LinesUpFrom(f, y) ==
    IF y > FIELD_HEIGHT - 2 THEN <<>>
    ELSE (IF IsLine(f, y) THEN <<y>> ELSE <<>>) \o LinesUpFrom(f, y + 1)

lines_to_clear_topdown(f) == LinesUpFrom(f, 0)

\* lines_to_clear that stops at the first full row it finds
lines_to_clear_first(f) ==
    LET l == LinesFrom(f, FIELD_HEIGHT - 2)
    IN  IF l = <<>> THEN <<>> ELSE <<Head(l)>>

lines_to_clear(f) == LinesFrom(f, FIELD_HEIGHT - 2)

\* field.pop(y_line)
Pop(f, y_line) == SubSeq(f, 1, y_line) \o SubSeq(f, y_line + 2, Len(f))

\* for y_line in lines_to_clear: field.pop(y_line)
RECURSIVE PopAll(_, _)
PopAll(f, lines) ==
    IF lines = <<>> THEN f
    ELSE PopAll(Pop(f, Head(lines)), Tail(lines))

\* insert rows without the two border cells
RECURSIVE InsertRows_noborder(_, _)
InsertRows_noborder(f, n) ==
    IF n = 0 THEN f ELSE InsertRows_noborder(<<[x \in 1..FIELD_WIDTH |-> 0]>> \o f, n - 1)

\* for _ in range(lines_cleared): field.insert(0, new_row)
RECURSIVE InsertRows(_, _)
InsertRows(f, n) ==
    IF n = 0 THEN f ELSE InsertRows(<<EmptyRow>> \o f, n - 1)

\* 1 + n in place of 1 << n
Shl1_plus(n) == n + 1

\* 1 << n
RECURSIVE Shl1(_)
Shl1(n) == IF n = 0 THEN 1 ELSE 2 * Shl1(n - 1)

\* check_lines: the new field and the new score
check_lines(f, sc) ==
    LET lines == lines_to_clear(f)
        lines_cleared == Len(lines)
    IN  IF lines # <<>>
        THEN [field |-> InsertRows(PopAll(f, lines), lines_cleared),
              score |-> sc + Shl1(lines_cleared) * 100]
        ELSE [field |-> f, score |-> sc]

(***************************************************************************)
(* Session state operations                                                *)
(***************************************************************************)
\* new_piece that never ends the game
new_piece_nocheck(f, k, g) ==
    /\ current_piece' = k
    /\ current_rotation' = 0
    /\ current_x' = (FIELD_WIDTH \div 2) - 2
    /\ current_y' = 0
    /\ game_over' = g

\* new_piece that puts the left edge of the 4x4 box on the middle column
new_piece_offcentre(f, k, g) ==
    /\ current_piece' = k
    /\ current_rotation' = 0
    /\ current_x' = FIELD_WIDTH \div 2
    /\ current_y' = 0
    /\ game_over' = IF ~does_piece_fit(f, k, 0, FIELD_WIDTH \div 2, 0)
                    THEN TRUE ELSE g

\* new_piece on board f, with k the value drawn by random.randint, and g the
\* value of game_over before the call
new_piece(f, k, g) ==
    /\ current_piece' = k
    /\ current_rotation' = 0
    /\ current_x' = (FIELD_WIDTH \div 2) - 2
    /\ current_y' = 0
    /\ game_over' = IF ~does_piece_fit(f, k, 0, (FIELD_WIDTH \div 2) - 2, 0)
                    THEN TRUE ELSE g

\* initialize_game that keeps the score of the session
initialize_game_keepscore(k) ==
    /\ field' = InitialField
    /\ score' = score
    /\ speed' = INITIAL_SPEED
    /\ speed_counter' = 0
    /\ piece_count' = 0
    /\ new_piece(InitialField, k, FALSE)

\* initialize_game on an empty session
initialize_game(k) ==
    /\ field' = InitialField
    /\ score' = 0
    /\ speed' = INITIAL_SPEED
    /\ speed_counter' = 0
    /\ piece_count' = 0
    /\ new_piece(InitialField, k, FALSE)

\* handle_left that also restarts the fall timer, as handle_down does
handle_left_resets ==
    IF does_piece_fit(field, current_piece, current_rotation, current_x - 1, current_y)
    THEN /\ current_x' = current_x - 1
         /\ speed_counter' = 0
         /\ UNCHANGED <<field, current_piece, current_rotation, current_y,
                        score, game_over, speed, piece_count>>
    ELSE UNCHANGED session

\* handle_left that moves without asking does_piece_fit
handle_left_nocheck ==
    /\ current_x' = current_x - 1
    /\ UNCHANGED <<field, current_piece, current_rotation, current_y,
                   score, game_over, speed, speed_counter, piece_count>>

handle_left ==
    IF does_piece_fit(field, current_piece, current_rotation, current_x - 1, current_y)
    THEN /\ current_x' = current_x - 1
         /\ UNCHANGED <<field, current_piece, current_rotation, current_y,
                        score, game_over, speed, speed_counter, piece_count>>
    ELSE UNCHANGED session

\* handle_right that also restarts the fall timer, as handle_down does
handle_right_resets ==
    IF does_piece_fit(field, current_piece, current_rotation, current_x + 1, current_y)
    THEN /\ current_x' = current_x + 1
         /\ speed_counter' = 0
         /\ UNCHANGED <<field, current_piece, current_rotation, current_y,
                        score, game_over, speed, piece_count>>
    ELSE UNCHANGED session

handle_right ==
    IF does_piece_fit(field, current_piece, current_rotation, current_x + 1, current_y)
    THEN /\ current_x' = current_x + 1
         /\ UNCHANGED <<field, current_piece, current_rotation, current_y,
                        score, game_over, speed, speed_counter, piece_count>>
    ELSE UNCHANGED session

\* handle_down that restarts the fall timer also when the piece cannot move down
handle_down_resets ==
    IF does_piece_fit(field, current_piece, current_rotation, current_x, current_y + 1)
    THEN /\ current_y' = current_y + 1
         /\ speed_counter' = 0
         /\ UNCHANGED <<field, current_piece, current_rotation, current_x,
                        score, game_over, speed, piece_count>>
    ELSE /\ speed_counter' = 0
         /\ UNCHANGED <<field, current_piece, current_rotation, current_x, current_y,
                        score, game_over, speed, piece_count>>

\* handle_down that leaves the fall timer running
handle_down_noreset ==
    IF does_piece_fit(field, current_piece, current_rotation, current_x, current_y + 1)
    THEN /\ current_y' = current_y + 1
         /\ UNCHANGED <<field, current_piece, current_rotation, current_x,
                        score, game_over, speed, speed_counter, piece_count>>
    ELSE UNCHANGED session

handle_down ==
    IF does_piece_fit(field, current_piece, current_rotation, current_x, current_y + 1)
    THEN /\ current_y' = current_y + 1
         /\ speed_counter' = 0
         /\ UNCHANGED <<field, current_piece, current_rotation, current_x,
                        score, game_over, speed, piece_count>>
    ELSE UNCHANGED session

handle_rotate ==
    IF does_piece_fit(field, current_piece, current_rotation + 1, current_x, current_y)
    THEN /\ current_rotation' = current_rotation + 1
         /\ UNCHANGED <<field, current_piece, current_x, current_y,
                        score, game_over, speed, speed_counter, piece_count>>
    ELSE UNCHANGED session

\* next_speed without the floor
next_speed_nofloor(pc, sp) ==
    IF pc % SPEEDUP_EVERY = 0 THEN sp - 1 ELSE sp

\* The speed after the piece count became pc
next_speed(pc, sp) ==
    IF pc % SPEEDUP_EVERY = 0 /\ sp > MIN_SPEED THEN sp - 1 ELSE sp

\* lock_and_spawn that clears the lines before it locks the piece
lock_and_spawn_clearfirst(k) ==
    LET cleared == check_lines(field, score)
        locked == lock_piece(cleared.field, current_piece, current_rotation,
                             current_x, current_y)
    IN  /\ field' = locked
        /\ score' = cleared.score
        /\ new_piece(locked, k, game_over)
        /\ piece_count' = piece_count + 1
        /\ speed' = next_speed(piece_count + 1, speed)

\* The else branch of the game loop: lock, clear, spawn, speed up
lock_and_spawn(k) ==
    LET locked == lock_piece(field, current_piece, current_rotation, current_x, current_y)
        cleared == check_lines(locked, score)
    IN  /\ field' = cleared.field
        /\ score' = cleared.score
        /\ new_piece(cleared.field, k, game_over)
        /\ piece_count' = piece_count + 1
        /\ speed' = next_speed(piece_count + 1, speed)

\* game_loop that forces the piece down one rerun late
game_loop_late(k) ==
    LET counter == speed_counter + 1
        force_down == counter > speed
    IN  IF force_down
        THEN /\ speed_counter' = 0
             /\ IF does_piece_fit(field, current_piece, current_rotation,
                                  current_x, current_y + 1)
                THEN /\ current_y' = current_y + 1
                     /\ UNCHANGED <<field, current_piece, current_rotation, current_x,
                                    score, game_over, speed, piece_count>>
                ELSE lock_and_spawn(k)
        ELSE /\ speed_counter' = counter
             /\ UNCHANGED <<field, current_piece, current_rotation, current_x, current_y,
                            score, game_over, speed, piece_count>>

\* The game loop of the script body
game_loop(k) ==
    LET counter == speed_counter + 1
        force_down == counter >= speed
    IN  IF force_down
        THEN /\ speed_counter' = 0
             /\ IF does_piece_fit(field, current_piece, current_rotation,
                                  current_x, current_y + 1)
                THEN /\ current_y' = current_y + 1
                     /\ UNCHANGED <<field, current_piece, current_rotation, current_x,
                                    score, game_over, speed, piece_count>>
                ELSE lock_and_spawn(k)
        ELSE /\ speed_counter' = counter
             /\ UNCHANGED <<field, current_piece, current_rotation, current_x, current_y,
                            score, game_over, speed, piece_count>>

\* script_run without the game-over stop
script_run_nostop(k) ==
    /\ screen' = "play"
    /\ game_loop(k)

\* One run of the script body on an initialised session: the game-over screen
\* stops the run, otherwise the buttons are shown and the game loop runs.
script_run(k) ==
    IF game_over
    THEN /\ screen' = "over"
         /\ UNCHANGED session
    ELSE /\ screen' = "play"
         /\ game_loop(k)

\* The restart button: the session is cleared and the rerun initialises it
restart(k) ==
    /\ screen = "over"
    /\ screen' = "none"
    /\ initialize_game(k)

(***************************************************************************)
(* Free play: every interleaving of reruns and button presses, with at     *)
(* most MaxCmds presses per game and the pieces drawn from FreeKinds.      *)
(***************************************************************************)
FreeKinds == {0}

Init ==
    /\ field = InitialField
    /\ current_piece \in FreeKinds
    /\ current_rotation = 0
    /\ current_x = (FIELD_WIDTH \div 2) - 2
    /\ current_y = 0
    /\ score = 0
    /\ game_over = FALSE
    /\ speed = INITIAL_SPEED
    /\ speed_counter = 0
    /\ piece_count = 0
    /\ screen = "none"
    /\ cmds = 0
    /\ last = <<"init", FALSE>>
    /\ arg = <<>>
    /\ res = <<>>

\* The placement a button tests
TargetFits(name) ==
    CASE name = "left" ->
           does_piece_fit(field, current_piece, current_rotation, current_x - 1, current_y)
      [] name = "right" ->
           does_piece_fit(field, current_piece, current_rotation, current_x + 1, current_y)
      [] name = "down" ->
           does_piece_fit(field, current_piece, current_rotation, current_x, current_y + 1)
      [] name = "rotate" ->
           does_piece_fit(field, current_piece, current_rotation + 1, current_x, current_y)

\* A button can be pressed while it is on the page
Press(name) ==
    /\ screen = "play"
    /\ cmds < MaxCmds
    /\ cmds' = cmds + 1
    /\ last' = <<name, TargetFits(name)>>
    /\ UNCHANGED <<screen, arg, res>>

Tick ==
    /\ \E k \in FreeKinds : script_run(k)
    /\ last' = <<"tick", FALSE>>
    /\ UNCHANGED <<cmds, arg, res>>
Left == Press("left") /\ handle_left
Right == Press("right") /\ handle_right
Down == Press("down") /\ handle_down
Rotate == Press("rotate") /\ handle_rotate
Restart ==
    /\ \E k \in FreeKinds : restart(k)
    /\ cmds' = 0
    /\ last' = <<"restart", FALSE>>
    /\ UNCHANGED <<arg, res>>

Next == Tick \/ Left \/ Right \/ Down \/ Rotate \/ Restart

Spec == Init /\ [][Next]_vars

(***************************************************************************)
(* Unlimited play: the first MaxLive pieces of a game. The pieces before   *)
(* the last fall untouched and stack in the spawn column; the last one     *)
(* takes any number of button presses between the reruns. The script       *)
(* reruns itself after each 50 ms sleep for as long as the game runs, so   *)
(* reruns are weakly fair; a press is never required to happen. The        *)
(* history variables cmds and last are not kept here.                      *)
(***************************************************************************)
LivePress ==
    /\ screen = "play"
    /\ piece_count = MaxLive - 1
    /\ UNCHANGED <<screen, cmds, last, arg, res>>

LiveTick ==
    /\ piece_count < MaxLive
    /\ \E k \in FreeKinds : script_run(k)
    /\ UNCHANGED <<cmds, last, arg, res>>
LiveLeft == LivePress /\ handle_left
LiveRight == LivePress /\ handle_right
LiveDown == LivePress /\ handle_down
LiveRotate == LivePress /\ current_rotation < MaxTurns /\ handle_rotate

NextLive == LiveTick \/ LiveLeft \/ LiveRight \/ LiveDown \/ LiveRotate

SpecLive == Init /\ [][NextLive]_vars /\ WF_vars(LiveTick)

(***************************************************************************)
(* A planned long game: the kinds and the player follow Plan, a cycle of   *)
(* 25 placements that clears 4, 2, 3 and 1 rows and leaves the board       *)
(* empty. The player brings each piece to its placement before the next    *)
(* rerun and may soft-drop it there. After MaxPieces locks the pieces are  *)
(* left to pile up at the spawn column until the game is over, and the     *)
(* game is restarted.                                                      *)
(***************************************************************************)
\* <<kind, rotation, x>>
Plan == <<
    <<0, 0, -1>>, <<0, 0, 0>>, <<0, 0, 1>>, <<0, 0, 2>>, <<0, 0, 3>>,
    <<0, 0, 4>>, <<0, 0, 5>>, <<0, 0, 6>>, <<0, 0, 7>>, <<0, 0, 8>>,
    <<3, 0, 0>>, <<3, 0, 2>>, <<3, 0, 4>>, <<3, 0, 6>>, <<3, 0, 8>>,
    <<0, 1, 1>>, <<0, 1, 5>>, <<0, 1, 1>>, <<0, 1, 5>>, <<0, 1, 1>>, <<0, 1, 5>>,
    <<0, 0, 7>>, <<0, 0, 8>>, <<0, 1, 1>>, <<0, 1, 5>> >>

PlanAt(n) ==
    IF n < MaxPieces THEN Plan[(n % Len(Plan)) + 1]
    ELSE <<0, 0, (FIELD_WIDTH \div 2) - 2>>

PlanKind(n) == PlanAt(n)[1]
TargetRotation == PlanAt(piece_count)[2]
TargetX == PlanAt(piece_count)[3]
AtTarget == current_rotation = TargetRotation /\ current_x = TargetX

InitPlan ==
    /\ field = InitialField
    /\ current_piece = PlanKind(0)
    /\ current_rotation = 0
    /\ current_x = (FIELD_WIDTH \div 2) - 2
    /\ current_y = 0
    /\ score = 0
    /\ game_over = FALSE
    /\ speed = INITIAL_SPEED
    /\ speed_counter = 0
    /\ piece_count = 0
    /\ screen = "none"
    /\ cmds = 0
    /\ last = <<"init", FALSE>>
    /\ arg = <<>>
    /\ res = <<>>

PlanPress(name) ==
    /\ screen = "play"
    /\ last' = <<name, TargetFits(name)>>
    /\ UNCHANGED <<screen, cmds, arg, res>>

PlanTick ==
    /\ screen = "none" \/ AtTarget
    /\ script_run(PlanKind(piece_count + 1))
    /\ last' = <<"tick", FALSE>>
    /\ UNCHANGED <<cmds, arg, res>>
PlanLeft == PlanPress("left") /\ current_x > TargetX /\ handle_left
PlanRight == PlanPress("right") /\ current_x < TargetX /\ handle_right
PlanRotate == PlanPress("rotate") /\ current_rotation < TargetRotation /\ handle_rotate
PlanDown == PlanPress("down") /\ AtTarget /\ handle_down
PlanRestart ==
    /\ restart(PlanKind(0))
    /\ last' = <<"restart", FALSE>>
    /\ UNCHANGED <<cmds, arg, res>>

NextPlan == PlanTick \/ PlanLeft \/ PlanRight \/ PlanRotate \/ PlanDown \/ PlanRestart

SpecPlan == InitPlan /\ [][NextPlan]_vars

(***************************************************************************)
(* The pure functions on their own: arg holds the inputs, drawn from       *)
(* bounded sets, and one action per function stores its result in res.     *)
(* The session is that of a new game and is not touched.                   *)
(***************************************************************************)
\* Boards given to does_piece_fit: the empty board, and one with an I piece
\* standing on the floor below the spawn column and an O piece in the left corner
FitBoards == <<
    InitialField,
    lock_piece(lock_piece(InitialField, 0, 0, 4, 13), 3, 0, 0, 14) >>

\* Boards given to check_lines: row 0 and the LineRows rows above the bottom
\* border are each empty, partly filled (one gap, in a column of their own) or full
RowTypes == {"empty", "part", "full"}
LinePatterns == [0..LineRows -> RowTypes]
VariedRow(j) == IF j = 0 THEN 0 ELSE FIELD_HEIGHT - 2 - LineRows + j
TestRow(j, type) ==
    [x \in 1..FIELD_WIDTH |->
        IF x = 1 \/ x = FIELD_WIDTH THEN BORDER
        ELSE IF type = "empty" \/ (type = "part" /\ x = j + 2) THEN 0
        ELSE (j % 7) + 1]
LineBoard(pat) ==
    [y \in 1..FIELD_HEIGHT |->
        IF \E j \in 0..LineRows : VariedRow(j) = y - 1
        THEN LET j == CHOOSE i \in 0..LineRows : VariedRow(i) = y - 1
             IN  TestRow(j, pat[j])
        ELSE InitialField[y]]

\* The cells of the 4x4 pattern of kind n that hold an X
Occupied(n) == {pi \in 0..15 : IsX(n, pi)}

RotateArgs == {<<"rotate", px, py, r>> : px \in 0..3, py \in 0..3, r \in 0..MaxRotation}
FitArgs == {<<"fit", b, n, r, x, y>> :
               b \in 1..Len(FitBoards), n \in Kinds, r \in 0..3,
               x \in (0 - MargX)..FIELD_WIDTH, y \in (0 - MargY)..FIELD_HEIGHT}
LineArgs == {<<"lines", pat, sc>> : pat \in LinePatterns, sc \in {0, 200}}
ShapeArgs == {<<"shape", k1, k2>> : k1 \in Kinds, k2 \in Kinds}
SpawnArgs == {<<"spawn", k>> : k \in Kinds}

InitPure ==
    /\ field = InitialField
    /\ current_piece = 0
    /\ current_rotation = 0
    /\ current_x = (FIELD_WIDTH \div 2) - 2
    /\ current_y = 0
    /\ score = 0
    /\ game_over = FALSE
    /\ speed = INITIAL_SPEED
    /\ speed_counter = 0
    /\ piece_count = 0
    /\ screen = "none"
    /\ cmds = 0
    /\ last = <<"init", FALSE>>
    /\ arg \in RotateArgs \cup FitArgs \cup LineArgs \cup ShapeArgs \cup SpawnArgs
    /\ res = <<>>

Apply(name) == arg[1] = name /\ res = <<>> /\ UNCHANGED <<session, screen, cmds, last, arg>>

ApplyRotate == Apply("rotate") /\ res' = <<rotate(arg[2], arg[3], arg[4])>>
ApplyFit ==
    Apply("fit") /\ res' = <<does_piece_fit(FitBoards[arg[2]], arg[3], arg[4], arg[5], arg[6])>>
ApplyCheckLines == Apply("lines") /\ res' = <<check_lines(LineBoard(arg[2]), arg[3])>>
ApplyShape == Apply("shape") /\ res' = <<Occupied(arg[2]), Occupied(arg[3])>>

\* A session created anew with the random draw giving kind arg[2]
ApplySpawn ==
    /\ arg[1] = "spawn"
    /\ res = <<>>
    /\ initialize_game(arg[2])
    /\ res' = <<"spawned">>
    /\ UNCHANGED <<screen, cmds, last, arg>>

NextPure == ApplyRotate \/ ApplyFit \/ ApplyCheckLines \/ ApplyShape \/ ApplySpawn

SpecPure == InitPure /\ [][NextPure]_vars

(***************************************************************************)
(* Properties                                                              *)
(***************************************************************************)
\* The absolute cells <<x, y>> covered by kind n with rotation r and origin (x, y)
PieceCells(n, r, x, y) ==
    {<<x + px, y + py>> : <<px, py>> \in
        {c \in (0..3) \X (0..3) : IsX(n, rotate(c[1], c[2], r))}}

\* Board f with the cells of the active piece filled
WithActivePiece(f) ==
    LET cells == PieceCells(current_piece, current_rotation, current_x, current_y)
    IN  [y \in 1..Len(f) |-> [x \in 1..Len(f[y]) |->
            IF <<x - 1, y - 1>> \in cells THEN current_piece + 1 ELSE f[y][x]]]

\* The rows above the bottom border whose interior cells are all non-empty
FullRows(f) ==
    {y \in 0..(FIELD_HEIGHT - 2) : \A x \in 1..(FIELD_WIDTH - 2) : f[y + 1][x + 1] # 0}

LockStep == piece_count' = piece_count + 1
ResetStep == screen = "over" /\ screen' = "none"

\* C1: while the game stays over (no reset), no step changes the board, the
\* score, the speed or the count of locked pieces.
C1_FrozenAfterGameOver ==
    [][(game_over /\ game_over') => UNCHANGED <<field, score, speed, piece_count>>]_vars

\* C1 witness: the game is over and a rerun has run since (the game-over screen is shown)
C1_Witness == game_over /\ screen = "over" /\ last = <<"tick", FALSE>>

\* C2: while the game stays over (no reset), no button changes the position or
\* the rotation of the active piece or the fall timer.
C2_ButtonsDeadAfterGameOver ==
    [][(game_over /\ game_over') =>
         UNCHANGED <<current_x, current_y, current_rotation, speed_counter>>]_vars

\* C3: a lock that completes k interior rows adds (1 << k) * 100 to the score
\* when k >= 1 and nothing when k = 0; no other step but a reset changes the score.
C3_ScorePerLock ==
    [][LET k == Cardinality(FullRows(WithActivePiece(field)))
       IN  /\ LockStep => score' = score + (IF k = 0 THEN 0 ELSE (2 ^ k) * 100)
           /\ (~LockStep /\ ~ResetStep) => score' = score]_vars

\* C3 witness: one round of the plan is played, with clears of 4, 2, 3 and 1 rows
C3_Witness == piece_count = 25 /\ score = 1600 + 400 + 800 + 200

\* C4: the speed stays within 10..20 and is max(10, 20 - piece_count div 10)
C4_SpeedFromPieceCount ==
    /\ speed \in 10..20
    /\ speed = (IF 20 - (piece_count \div 10) > 10 THEN 20 - (piece_count \div 10) ELSE 10)

\* C4 witness: the 110th lock, a multiple of 10 reached with the speed already at 10
C4_Witness == piece_count = 110 /\ speed = 10 /\ last = <<"tick", FALSE>>

\* C5: does_piece_fit is false exactly when some occupied cell of the rotated
\* pattern lies outside the board or on a non-empty board cell.
C5_FitsIffNoCollision ==
    (arg # <<>> /\ arg[1] = "fit" /\ res # <<>>) =>
        LET f == FitBoards[arg[2]]
            collides(c) == \/ c[1] < 0 \/ c[1] >= FIELD_WIDTH
                           \/ c[2] < 0 \/ c[2] >= FIELD_HEIGHT
                           \/ f[c[2] + 1][c[1] + 1] # 0
        IN  res[1] = ~(\E c \in PieceCells(arg[3], arg[4], arg[5], arg[6]) : collides(c))

\* C5 witness: an I piece with origin x = -1 fits on the empty board: the left
\* column of its 4x4 box is outside the board and holds no occupied cell
C5_Witness ==
    /\ arg = <<"fit", 1, 0, 0, -1, 0>>
    /\ res = <<TRUE>>

\* The rows of the result of check_lines that the claim expects
ExpectedAfterClear(f) ==
    LET k == Cardinality(FullRows(f))
        above == SubSeq(f, 1, FIELD_HEIGHT - 1)
        notFull(row) == \E x \in 2..(FIELD_WIDTH - 1) : row[x] = 0
    IN  [i \in 1..k |-> EmptyRow] \o SelectSeq(above, notFull) \o <<f[FIELD_HEIGHT]>>

\* C6: check_lines returns a board of FIELD_HEIGHT rows: k fresh rows, then the
\* rows that were not full in their order, then the bottom border row.
C6_LineClearRows ==
    (arg # <<>> /\ arg[1] = "lines" /\ res # <<>>) =>
        /\ Len(res[1].field) = FIELD_HEIGHT
        /\ res[1].field = ExpectedAfterClear(LineBoard(arg[2]))

\* C6 witness: two full rows that are not adjacent, with a partly filled row
\* between them and another above them, are cleared
C6_Witness ==
    /\ arg # <<>> /\ arg[1] = "lines" /\ res # <<>>
    /\ arg[2] = [j \in 0..LineRows |->
                    IF j = LineRows \/ j = LineRows - 2 THEN "full"
                    ELSE IF j = 0 THEN "empty" ELSE "part"]
    /\ res[1].field[FIELD_HEIGHT - 1] = TestRow(LineRows - 1, "part")
    /\ res[1].field[2] = EmptyRow

\* n quarter turns: the map of rotation 1 applied n times to cell (px, py)
RECURSIVE Turns(_, _, _)
Turns(px, py, n) ==
    IF n = 0 THEN py * 4 + px
    ELSE LET i == Turns(px, py, n - 1) IN rotate(i % 4, i \div 4, 1)

\* C7: for the rotation r under test, rotate is a bijection of the 16 cells onto
\* 0..15, equals r quarter turns and the map of r mod 4, and four more turns
\* give every kind the same pattern.
C7_RotateBijection ==
    (arg # <<>> /\ arg[1] = "rotate" /\ res # <<>>) =>
        LET px == arg[2]
            py == arg[3]
            r == arg[4]
            cells == (0..3) \X (0..3)
        IN  /\ res[1] \in 0..15
            /\ {rotate(c[1], c[2], r) : c \in cells} = 0..15
            /\ \A c, d \in cells : rotate(c[1], c[2], r) = rotate(d[1], d[2], r) => c = d
            /\ res[1] = Turns(px, py, r)
            /\ res[1] = Turns(px, py, r % 4)
            /\ \A n \in Kinds : IsX(n, rotate(px, py, r + 4)) = IsX(n, res[1])
            /\ \A n \in Kinds : IsX(n, Turns(px, py, 4)) = IsX(n, rotate(px, py, 0))

\* C7 witness: rotation 7 of cell (1, 2) is cell index 3 - 2 + 4 = 5
C7_Witness == arg = <<"rotate", 1, 2, 7>> /\ res = <<5>>

\* C8: the board has FIELD_HEIGHT rows of FIELD_WIDTH cells, its left and right
\* columns and bottom row hold the border value, and no interior cell does.
C8_BoardShape ==
    /\ DOMAIN field = 1..FIELD_HEIGHT
    /\ \A y \in 1..FIELD_HEIGHT :
          /\ DOMAIN field[y] = 1..FIELD_WIDTH
          /\ \A x \in 1..FIELD_WIDTH :
                IF x = 1 \/ x = FIELD_WIDTH \/ y = FIELD_HEIGHT
                THEN field[y][x] = BORDER
                ELSE field[y][x] \in 0..7

\* C8 witness: pieces are locked on a board that went through line clears
C8_Witness == score = 3000 /\ piece_count = 27 /\ field # InitialField

\* C9: every kind has exactly 4 occupied cells and no two kinds occupy the same cells
C9_SevenDistinctShapes ==
    (arg # <<>> /\ arg[1] = "shape" /\ res # <<>>) =>
        /\ Cardinality(res[1]) = 4
        /\ arg[2] # arg[3] => res[1] # res[2]

\* C10: a button whose target placement does not fit leaves the session unchanged
C10_RejectedChangesNothing ==
    [][(cmds' = cmds + 1 /\ last'[2] = FALSE) => UNCHANGED session]_vars

\* C10 witness: a rotation was rejected during play
C10_Witness == last = <<"rotate", FALSE>> /\ ~game_over /\ cmds > 0

\* A step that is a press of button name whose target placement fitted
Accepted(name) == last' = <<name, TRUE>> /\ cmds' = cmds + 1

\* A step that is one rerun of the script
TickStep == last'[1] = "tick"

\* A rerun on which gravity acted: the piece moved down or was locked
GravityStep == TickStep /\ (current_y' # current_y \/ LockStep)

\* C11: an accepted left or right press changes x by -1 or +1, an accepted
\* rotate press changes the rotation by +1, and nothing else of the session changes.
C11_AcceptedMoveFrame ==
    [][/\ Accepted("left") =>
             /\ current_x' = current_x - 1
             /\ UNCHANGED <<field, current_piece, current_rotation, current_y,
                            score, game_over, speed, speed_counter, piece_count>>
       /\ Accepted("right") =>
             /\ current_x' = current_x + 1
             /\ UNCHANGED <<field, current_piece, current_rotation, current_y,
                            score, game_over, speed, speed_counter, piece_count>>
       /\ Accepted("rotate") =>
             /\ current_rotation' = current_rotation + 1
             /\ UNCHANGED <<field, current_piece, current_x, current_y,
                            score, game_over, speed, speed_counter, piece_count>>]_vars

\* C11 witness: a left press and then a rotate press were accepted for the first piece
C11_Witness ==
    /\ last = <<"rotate", TRUE>> /\ cmds = 2 /\ piece_count = 0
    /\ current_x = 3 /\ current_rotation = 1

\* C12: an accepted down press adds 1 to y, zeroes the fall timer and changes
\* nothing else (it locks nothing); the timer then grows by one per rerun only,
\* and gravity acts only on the rerun that takes it from speed - 1 to speed,
\* so not before the speed-th rerun after the press.
C12_SoftDropRestartsTimer ==
    [][/\ Accepted("down") =>
             /\ current_y' = current_y + 1
             /\ speed_counter' = 0
             /\ UNCHANGED <<field, current_piece, current_rotation, current_x,
                            score, game_over, speed, piece_count>>
       /\ speed_counter' > speed_counter =>
             TickStep /\ ~GravityStep /\ speed_counter' = speed_counter + 1
       /\ GravityStep => speed_counter = speed - 1]_vars

\* C12 witness: a down press was accepted below the spawn row with the timer at 0
C12_Witness ==
    /\ last = <<"down", TRUE>> /\ ~game_over
    /\ current_y > 1 /\ speed_counter = 0

\* Every cell of kind n with rotation r and origin (x, y) is on the board and empty on f
PlacementFree(f, n, r, x, y) ==
    \A c \in PieceCells(n, r, x, y) :
        /\ c[1] \in 0..(FIELD_WIDTH - 1)
        /\ c[2] \in 0..(FIELD_HEIGHT - 1)
        /\ f[c[2] + 1][c[1] + 1] = 0

\* C13: game_over turns true only on a spawn whose piece does not fit at the
\* spawn placement, and on every such spawn; the piece is then the active piece
\* with rotation 0 at x = 4, y = 0 over filled cells, and is not in the board.
C13_GameOverOnlyOnFailedSpawn ==
    [][/\ (~game_over /\ game_over') =>
             /\ LockStep
             /\ current_rotation' = 0 /\ current_x' = 4 /\ current_y' = 0
             /\ ~PlacementFree(field', current_piece', 0, 4, 0)
             /\ \E c \in PieceCells(current_piece', 0, 4, 0) :
                    field'[c[2] + 1][c[1] + 1] \in 1..7
             /\ field' = ExpectedAfterClear(WithActivePiece(field))
       /\ ((LockStep \/ ResetStep) /\ ~PlacementFree(field', current_piece', 0, 4, 0)) =>
             game_over']_vars

\* C13 witness: the rerun that locked a piece spawned one that does not fit
C13_Witness ==
    /\ game_over /\ screen = "play" /\ last = <<"tick", FALSE>>
    /\ current_rotation = 0 /\ current_x = 4 /\ current_y = 0
    /\ ~PlacementFree(field, current_piece, 0, 4, 0)

\* C14: a new session has the drawn kind active with rotation 0 at x = 4, y = 0
\* on the empty bordered board, where it fits, and the game is not over.
C14_SpawnFitsOnEmptyBoard ==
    (arg # <<>> /\ arg[1] = "spawn" /\ res # <<>>) =>
        /\ current_piece = arg[2]
        /\ current_rotation = 0 /\ current_x = 4 /\ current_y = 0
        /\ \A y \in 1..(FIELD_HEIGHT - 1) : \A x \in 2..(FIELD_WIDTH - 1) : field[y][x] = 0
        /\ PlacementFree(field, current_piece, 0, 4, 0)
        /\ ~game_over

\* C14 witness: a session created with kind 6
C14_Witness == arg = <<"spawn", 6>> /\ res # <<>> /\ current_piece = 6 /\ ~game_over

\* C15: a gravity step moves a piece that fits one row lower down by one row and
\* changes nothing else of the game; otherwise the board becomes the board with
\* the piece locked and then cleared of full rows, the next piece is spawned at
\* (4, 0) with rotation 0, game_over tells whether it fits on that new board,
\* and piece_count grows by one, game over or not.
C15_GravityStep ==
    [][(TickStep /\ ~game_over /\ speed_counter + 1 >= speed) =>
         IF PlacementFree(field, current_piece, current_rotation, current_x, current_y + 1)
         THEN /\ current_y' = current_y + 1
              /\ UNCHANGED <<field, current_piece, current_rotation, current_x,
                             score, game_over, speed, piece_count>>
         ELSE /\ field' = ExpectedAfterClear(WithActivePiece(field))
              /\ current_rotation' = 0 /\ current_x' = 4 /\ current_y' = 0
              /\ game_over' = ~PlacementFree(field', current_piece', 0, 4, 0)
              /\ piece_count' = piece_count + 1]_vars

\* C15 witness: after line clears, a lock has spawned a piece that does not fit
\* and has counted the locked piece
C15_Witness ==
    /\ game_over /\ screen = "play" /\ last = <<"tick", FALSE>>
    /\ score > 0 /\ piece_count > MaxPieces

\* C16: a reset leaves an empty bordered board, score 0, game_over false,
\* speed 20, fall timer 0, piece_count 0 and a fresh piece that fits at (4, 0)
\* with rotation 0.
C16_ResetRecreatesState ==
    [][ResetStep =>
         /\ DOMAIN field' = 1..FIELD_HEIGHT
         /\ \A y \in 1..FIELD_HEIGHT :
               /\ DOMAIN field'[y] = 1..FIELD_WIDTH
               /\ \A x \in 1..FIELD_WIDTH :
                     field'[y][x] = (IF x = 1 \/ x = FIELD_WIDTH \/ y = FIELD_HEIGHT
                                     THEN BORDER ELSE 0)
         /\ score' = 0 /\ ~game_over' /\ speed' = 20
         /\ speed_counter' = 0 /\ piece_count' = 0
         /\ current_piece' \in Kinds
         /\ current_rotation' = 0 /\ current_x' = 4 /\ current_y' = 0
         /\ PlacementFree(field', current_piece', 0, 4, 0)]_vars

\* C16 witness: the game has just been restarted
C16_Witness == last = <<"restart", FALSE>> /\ screen = "none" /\ score = 0

\* C17: gravity acts on exactly the reruns that take the fall timer to the
\* speed, and the timer is 0 after them; on the other reruns of a running game
\* the timer grows by one; the timer is 0 after every spawn; no other step but
\* an accepted down press changes it; the speed changes only with a spawn; and
\* 0 <= timer < speed in every state.
C17_TickDriver ==
    /\ [](speed_counter >= 0 /\ speed_counter < speed)
    /\ [][((TickStep /\ ~game_over) =>
             /\ GravityStep <=> (speed_counter + 1 = speed)
             /\ speed_counter' = (IF GravityStep THEN 0 ELSE speed_counter + 1))
          /\ ((LockStep \/ ResetStep) => speed_counter' = 0)
          /\ ((speed_counter' # speed_counter) =>
                (TickStep \/ ResetStep \/ last' = <<"down", TRUE>>))
          /\ ((speed' # speed) => (LockStep \/ ResetStep))]_vars

\* C17 witness: gravity has just moved the 31st piece, at speed 17, to row 1
C17_Witness ==
    /\ last = <<"tick", FALSE>> /\ piece_count = 30 /\ speed = 17
    /\ current_y = 1 /\ speed_counter = 0

\* C18: while the game is not over the active piece lies on empty cells of the
\* board; and every lock writes current_piece + 1 into exactly the 4 cells of
\* the piece, all of them empty interior cells before, and into no other cell.
C18_ActivePieceFits ==
    /\ [](~game_over =>
            PlacementFree(field, current_piece, current_rotation, current_x, current_y))
    /\ [][LockStep =>
            LET cells == PieceCells(current_piece, current_rotation, current_x, current_y)
                locked == lock_piece(field, current_piece, current_rotation,
                                     current_x, current_y)
            IN  /\ Cardinality(cells) = 4
                /\ \A c \in cells :
                      /\ c[1] \in 1..(FIELD_WIDTH - 2)
                      /\ c[2] \in 0..(FIELD_HEIGHT - 2)
                      /\ field[c[2] + 1][c[1] + 1] = 0
                /\ DOMAIN locked = 1..FIELD_HEIGHT
                /\ \A y \in 1..FIELD_HEIGHT :
                      /\ DOMAIN locked[y] = 1..FIELD_WIDTH
                      /\ \A x \in 1..FIELD_WIDTH :
                            locked[y][x] = (IF <<x - 1, y - 1>> \in cells
                                            THEN current_piece + 1 ELSE field[y][x])
                /\ field' = ExpectedAfterClear(locked)]_vars

\* C18 witness: a piece moved two columns to the left has been locked on the floor
C18_Witness ==
    /\ ~game_over /\ piece_count = 1 /\ cmds = 2
    /\ field[FIELD_HEIGHT - 1][5] = 1

\* C19: no row above the bottom border is full in any state between steps, a
\* lock fills at most 4 rows, the score changes only by 200, 400, 800 or 1600
\* on a lock (or to 0 on a reset), and the score is a multiple of 200.
C19_NoFullRowsAtRest ==
    /\ [](FullRows(field) = {} /\ score % 200 = 0 /\ score >= 0)
    /\ [][/\ LockStep => Cardinality(FullRows(WithActivePiece(field))) <= 4
          /\ (score' # score /\ ~ResetStep) =>
                (LockStep /\ score' - score \in {200, 400, 800, 1600})]_vars

\* C19 witness: 1, 2, 3 and 4 rows have been cleared and the board is empty again
C19_Witness ==
    /\ score = 1600 + 400 + 800 + 200 /\ field = InitialField
    /\ last = <<"tick", FALSE>> /\ ~game_over

\* C20: with the reruns weakly fair, every piece of a running game is
\* eventually locked (piece_count grows) or the game is over, whatever presses
\* of the four buttons come between the reruns.
C20_EveryPieceLocks ==
    \A n \in 0..(MaxLive - 1) :
        (piece_count = n /\ ~game_over) ~> (piece_count > n \/ game_over)

\* C20 witness: a piece taken five columns to the left, to the left wall, has
\* been locked on the floor beside the pieces standing in the spawn column
C20_Witness ==
    /\ piece_count = MaxLive /\ last = <<"init", FALSE>>
    /\ field[FIELD_HEIGHT - 1][2] = 1
    /\ field[FIELD_HEIGHT - 1][7] = 1

====
